---- MODULE Spec2Model ----
(***************************************************************************)
(* A model of lhotse/dataset/sampling/bucketing.py: the two bucket         *)
(* builders (create_buckets_equal_len, create_buckets_equal_duration) and  *)
(* the BucketingSampler that interleaves batches of per-bucket samplers.   *)
(*                                                                         *)
(* A cut is a record [id, duration]; the id of a cut is its position in    *)
(* the input collection.  Durations are positive integers (multiples of a  *)
(* time unit), so that `current_duration < total_duration / num_buckets`   *)
(* is decided exactly, by cross-multiplication.  Only the first of the     *)
(* parallel cut collections is modelled: it alone decides the buckets.     *)
(***************************************************************************)
EXTENDS Integers, Sequences, FiniteSets, TLC

\* Bounds of the builder specification (SpecBuild).
MaxCuts == 6
MaxDur == 3
MaxBuckets == 4

\* Bounds of the sampler specification (Spec).
SamplerMaxCuts == 4
SamplerMaxDur == 2
SamplerMaxBuckets == 3
MaxSeed == 1
MaxEpoch == 1
\* The max_cuts constraint handed to every per-bucket sampler through kwargs.
MaxCutsPerBatch == 2

VARIABLES
    cuts,           \* the first input cut collection, in input order
    num_buckets,    \* the num_buckets argument
    bucket_method,  \* "unset" until a builder has run
    buckets,        \* the builder's return value: a sequence of buckets
    error,          \* "none", or the exception the call raised
    stop_idx,       \* bucket_idx at which the cut stream ran out, -1 if it did not
    \* BucketingSampler
    drop_last,
    proportional_sampling,
    is_lazy,        \* cut_sets[0].is_lazy
    seed,
    epoch,
    bucket_samplers,\* per bucket: [cuts, cursor, epoch, min_duration]
    bucket_rng,     \* state of the random.Random instance
    depleted,
    num_batches,    \* the total cached by __len__: <<n>>, or <<>> for None
    \* history of the calls made, kept for the properties
    restart_from,   \* where in an epoch __iter__ found the sampler, while
                    \* only pulls have followed that __iter__; else "none"
    trace,          \* selections since the last restart: [idx, stop, was_depleted]
    filtered,       \* filter() was called since the last restart
    iter_key        \* seed + epoch at the last restart

buildVars == <<cuts, num_buckets, bucket_method, buckets, error, stop_idx>>
configVars == <<drop_last, proportional_sampling, is_lazy, seed>>
samplerVars == <<epoch, bucket_samplers, bucket_rng, depleted, num_batches>>
historyVars == <<restart_from, trace, filtered, iter_key>>
vars == <<buildVars, configVars, samplerVars, historyVars>>

-----------------------------------------------------------------------------
(* Cut collections *)

\* The collection whose i-th cut has duration durs[i].
MakeCuts(durs) == [i \in 1..Len(durs) |-> [id |-> i, duration |-> durs[i]]]

RECURSIVE SumDuration(_)
SumDuration(cs) ==
    IF cs = <<>> THEN 0 ELSE Head(cs).duration + SumDuration(Tail(cs))

RECURSIVE Flatten(_)
Flatten(bs) == IF bs = <<>> THEN <<>> ELSE Head(bs) \o Flatten(Tail(bs))

\* Insert c after every cut of the ascending sequence s that is not longer.
RECURSIVE InsertByDuration(_, _)
InsertByDuration(c, s) ==
    IF s = <<>> THEN <<c>>
    ELSE IF Head(s).duration <= c.duration
         THEN <<Head(s)>> \o InsertByDuration(c, Tail(s))
         ELSE <<c>> \o s

\* CutSet.sort_by_duration(ascending=True): a stable ascending sort.
RECURSIVE SortByDuration(_)
SortByDuration(cs) ==
    IF cs = <<>> THEN <<>>
    ELSE InsertByDuration(cs[Len(cs)], SortByDuration(SubSeq(cs, 1, Len(cs) - 1)))

Min(a, b) == IF a <= b THEN a ELSE b

\* CutSet.split(n): n contiguous parts of as-equal-as-possible size, the
\* larger parts first; parts past the end of the collection are empty.
Split(cs, n) ==
    LET chunk == Len(cs) \div n
        extra == Len(cs) % n
    IN  [i \in 1..n |->
            SubSeq(cs, (i - 1) * chunk + Min(i - 1, extra) + 1,
                       i * chunk + Min(i, extra))]

-----------------------------------------------------------------------------
(* create_buckets_equal_len *)

CreateBucketsEqualLen_Unsorted(cs, n) == Split(cs, n)

CreateBucketsEqualLen(cs, n) == Split(SortByDuration(cs), n)

-----------------------------------------------------------------------------
(* _create_buckets_equal_duration_single *)

\* <= in the place of <.
BelowBucketDuration_OrEqual(current_duration, total_duration, n) ==
    current_duration * n <= total_duration

\* The loop condition with the division left out.
BelowBucketDuration_NoDivision(current_duration, total_duration, n) ==
    current_duration < total_duration

\* current_duration < bucket_duration, where bucket_duration is
\* total_duration / num_buckets.
BelowBucketDuration(current_duration, total_duration, n) ==
    current_duration * n < total_duration

\* The inner while loop.  stop is TRUE when next(iter_cuts) raised
\* StopIteration; bucket then keeps what was appended so far.
RECURSIVE FillBucket(_, _, _, _, _)
FillBucket(bucket, current_duration, iter_cuts, total_duration, n) ==
    IF BelowBucketDuration(current_duration, total_duration, n)
    THEN IF iter_cuts = <<>>
         THEN [bucket |-> bucket, iter_cuts |-> iter_cuts, stop |-> TRUE]
         ELSE FillBucket(Append(bucket, Head(iter_cuts)),
                         current_duration + Head(iter_cuts).duration,
                         Tail(iter_cuts), total_duration, n)
    ELSE [bucket |-> bucket, iter_cuts |-> iter_cuts, stop |-> FALSE]

\* The cut given back is chained in front of the stream without being popped
\* from the bucket.
RECURSIVE BucketLoop_KeepsGivenBack(_, _, _, _, _)
BucketLoop_KeepsGivenBack(bucket_idx, iter_cuts, bs, total_duration, n) ==
    IF bucket_idx = n
    THEN [buckets |-> bs, error |-> "none", stop_idx |-> -1]
    ELSE LET f == FillBucket(<<>>, 0, iter_cuts, total_duration, n) IN
         IF f.stop
         THEN IF bucket_idx # n - 1
              THEN [buckets |-> <<>>, error |-> "AssertionError",
                    stop_idx |-> bucket_idx]
              ELSE [buckets |-> Append(bs, f.bucket), error |-> "none",
                    stop_idx |-> bucket_idx]
         ELSE IF bucket_idx % 2 = 1
              THEN IF f.bucket = <<>>
                   THEN [buckets |-> <<>>, error |-> "IndexError",
                         stop_idx |-> -1]
                   ELSE BucketLoop_KeepsGivenBack(
                            bucket_idx + 1,
                            <<f.bucket[Len(f.bucket)]>> \o f.iter_cuts,
                            Append(bs, f.bucket), total_duration, n)
              ELSE BucketLoop_KeepsGivenBack(bucket_idx + 1, f.iter_cuts,
                                             Append(bs, f.bucket),
                                             total_duration, n)

\* The for loop over bucket_idx (0-based, as in the source).
RECURSIVE BucketLoop(_, _, _, _, _)
BucketLoop(bucket_idx, iter_cuts, bs, total_duration, n) ==
    IF bucket_idx = n
    THEN [buckets |-> bs, error |-> "none", stop_idx |-> -1]
    ELSE LET f == FillBucket(<<>>, 0, iter_cuts, total_duration, n) IN
         IF f.stop
         THEN \* except StopIteration: assert bucket_idx == num_buckets - 1
              IF bucket_idx # n - 1
              THEN [buckets |-> <<>>, error |-> "AssertionError",
                    stop_idx |-> bucket_idx]
              ELSE [buckets |-> Append(bs, f.bucket), error |-> "none",
                    stop_idx |-> bucket_idx]
         ELSE IF bucket_idx % 2 = 1
              THEN IF f.bucket = <<>>
                   THEN [buckets |-> <<>>, error |-> "IndexError",
                         stop_idx |-> -1]
                   ELSE BucketLoop(bucket_idx + 1,
                                   <<f.bucket[Len(f.bucket)]>> \o f.iter_cuts,
                                   Append(bs, SubSeq(f.bucket, 1, Len(f.bucket) - 1)),
                                   total_duration, n)
              ELSE BucketLoop(bucket_idx + 1, f.iter_cuts,
                              Append(bs, f.bucket), total_duration, n)

CreateBucketsEqualDurationSingle(cs, n) ==
    BucketLoop(0, cs, <<>>, SumDuration(cs), n)

\* create_buckets_equal_duration, for the first collection.
CreateBucketsEqualDuration(cs, n) ==
    CreateBucketsEqualDurationSingle(SortByDuration(cs), n)

-----------------------------------------------------------------------------
(* The builder specification: an input is drawn, one builder is applied. *)

RECURSIVE SeqsUpTo(_, _)
SeqsUpTo(S, n) ==
    IF n = 0 THEN {<<>>}
    ELSE LET shorter == SeqsUpTo(S, n - 1)
         IN  shorter \cup {Append(s, x) : s \in {t \in shorter : Len(t) = n - 1}, x \in S}

\* No sampler is constructed in the builder specification.
NoSampler ==
    /\ drop_last = FALSE
    /\ proportional_sampling = FALSE
    /\ is_lazy = FALSE
    /\ seed = 0
    /\ epoch = 0
    /\ bucket_samplers = <<>>
    /\ bucket_rng = 0
    /\ depleted = <<>>
    /\ num_batches = <<>>
    /\ restart_from = "none"
    /\ trace = <<>>
    /\ filtered = FALSE
    /\ iter_key = 0

InitBuild ==
    /\ cuts \in {MakeCuts(d) : d \in SeqsUpTo(1..MaxDur, MaxCuts)}
    /\ num_buckets \in 1..MaxBuckets
    /\ bucket_method = "unset"
    /\ buckets = <<>>
    /\ error = "none"
    /\ stop_idx = -1
    /\ NoSampler

BuildEqualLen ==
    /\ bucket_method = "unset"
    /\ bucket_method' = "equal_len"
    /\ buckets' = CreateBucketsEqualLen(cuts, num_buckets)
    /\ error' = "none"
    /\ stop_idx' = -1
    /\ UNCHANGED <<cuts, num_buckets, configVars, samplerVars, historyVars>>

BuildEqualDuration ==
    /\ bucket_method = "unset"
    /\ bucket_method' = "equal_duration"
    /\ LET r == CreateBucketsEqualDuration(cuts, num_buckets)
       IN  /\ buckets' = r.buckets
           /\ error' = r.error
           /\ stop_idx' = r.stop_idx
    /\ UNCHANGED <<cuts, num_buckets, configVars, samplerVars, historyVars>>

NextBuild == BuildEqualLen \/ BuildEqualDuration

SpecBuild == InitBuild /\ [][NextBuild]_vars

-----------------------------------------------------------------------------
(* The per-bucket sampler (sampler_type, by default SingleCutSampler): a    *)
(* record [cuts, cursor, epoch, min_duration].  cursor counts the cuts of   *)
(* the bucket already read; a cut passes the installed filter when its      *)
(* duration is at least min_duration; 1, the shortest duration, is the      *)
(* filter that rejects nothing.                                             *)

NewSampler(bucket) ==
    [cuts |-> bucket, cursor |-> 0, epoch |-> 0, min_duration |-> 1]

Passes(s, c) == c.duration >= s.min_duration

\* Read cuts from the cursor on, skipping those the filter rejects, until the
\* batch holds MaxCutsPerBatch cuts or the bucket ends.
RECURSIVE CollectBatch(_, _, _)
CollectBatch(s, cursor, batch) ==
    IF Len(batch) = MaxCutsPerBatch \/ cursor = Len(s.cuts)
    THEN [batch |-> batch, cursor |-> cursor]
    ELSE CollectBatch(s, cursor + 1,
                      IF Passes(s, s.cuts[cursor + 1])
                      THEN Append(batch, s.cuts[cursor + 1].id)
                      ELSE batch)

\* next(sampler): a batch, or StopIteration (stop) when no cut is left or
\* when the bucket ended on an incomplete batch and drop_last is set.
SamplerNext(s, dropLast) ==
    LET c == CollectBatch(s, s.cursor, <<>>)
        incomplete == Len(c.batch) < MaxCutsPerBatch
    IN  IF c.batch = <<>> \/ (incomplete /\ dropLast)
        THEN [stop |-> TRUE, batch |-> <<>>,
              sampler |-> [s EXCEPT !.cursor = Len(s.cuts)]]
        ELSE [stop |-> FALSE, batch |-> c.batch,
              sampler |-> [s EXCEPT !.cursor = c.cursor]]

\* iter(sampler): back to the start of the bucket.
SamplerIter(s) == [s EXCEPT !.cursor = 0]

SamplerSetEpoch(s, e) == [s EXCEPT !.epoch = e]

\* sampler.filter(predicate): the predicates installed so far are conjoined.
SamplerFilter(s, t) ==
    [s EXCEPT !.min_duration = IF t > @ THEN t ELSE @]

\* len(sampler): the batches one full pass over the bucket gives.
SamplerLen(s, dropLast) ==
    LET kept == Cardinality({i \in 1..Len(s.cuts) : Passes(s, s.cuts[i])})
    IN  (kept \div MaxCutsPerBatch)
        + (IF kept % MaxCutsPerBatch > 0 /\ ~dropLast THEN 1 ELSE 0)

\* sampler.remaining_duration, for an eager collection.
SamplerRemainingDuration(s) ==
    SumDuration(SubSeq(s.cuts, s.cursor + 1, Len(s.cuts)))

\* sampler.remaining_cuts, for an eager collection.
SamplerRemainingCuts(s) == Len(s.cuts) - s.cursor

\* sampler.num_cuts, for an eager collection.
SamplerNumCuts(s) == Len(s.cuts)

\* An Optional[int]: None, or an integer.
None == [kind |-> "None", v |-> 0]
Some(n) == [kind |-> "int", v |-> n]

\* What a property of a per-bucket sampler reports: None over a lazy
\* collection.
Reported(n, lazy) == IF lazy THEN None ELSE Some(n)

-----------------------------------------------------------------------------
(* random.Random: a linear congruential generator stands for it.  The       *)
(* state after seeding and every value drawn are functions of the seed.     *)

RngMod == 16

RngSeed(k) == k % RngMod

RngStep(r) == (5 * r + 3) % RngMod

\* rng.choice(seq): advances the generator and picks by its new state.
Choice(r, seq) ==
    LET r2 == RngStep(r)
    IN  [value |-> seq[((r2 * Len(seq)) \div RngMod) + 1], rng |-> r2]

-----------------------------------------------------------------------------
(* BucketingSampler *)

RECURSIVE IdxsWhere(_, _, _)
IdxsWhere(keep, i, n) ==
    IF i > n THEN <<>>
    ELSE (IF keep[i] THEN <<i>> ELSE <<>>) \o IdxsWhere(keep, i + 1, n)

\* Every bucket, depleted or not.
NondepletedSamplersWithIdxs_All(dep) ==
    IdxsWhere([i \in DOMAIN dep |-> TRUE], 1, Len(dep))

\* _nondepleted_samplers_with_idxs: the indices, in order, of the buckets
\* whose flag is false (the sampler of a pair is bucket_samplers[idx]).
NondepletedSamplersWithIdxs(dep) ==
    IdxsWhere([i \in DOMAIN dep |-> ~dep[i]], 1, Len(dep))

\* any() in the place of all().
IsDepleted_Any(dep) == \E i \in DOMAIN dep : dep[i]

\* is_depleted
IsDepleted(dep) == \A i \in DOMAIN dep : dep[i]

\* random() >= prob1 in the place of random() > prob1.
SelectBucketWithIdx_Ge(dep, samplers, r, prop, lazy) ==
    LET pairs == NondepletedSamplersWithIdxs(dep) IN
    IF ~prop \/ lazy
    THEN LET c == Choice(r, pairs) IN [idx |-> c.value, rng |-> c.rng]
    ELSE IF Len(pairs) = 1
    THEN [idx |-> pairs[1], rng |-> r]
    ELSE LET c1 == Choice(r, pairs)
             c2 == Choice(c1.rng, pairs)
             rem1 == SamplerRemainingDuration(samplers[c1.value])
             rem2 == SamplerRemainingDuration(samplers[c2.value])
             u == RngStep(c2.rng)
         IN  IF rem1 + rem2 = 0
             THEN [idx |-> c1.value, rng |-> c2.rng]
             ELSE IF u * (rem1 + rem2) >= rem1 * RngMod
                  THEN [idx |-> c2.value, rng |-> u]
                  ELSE [idx |-> c1.value, rng |-> u]

\* The uniform value drawn before the division is attempted.
SelectBucketWithIdx_DrawsOnZero(dep, samplers, r, prop, lazy) ==
    LET pairs == NondepletedSamplersWithIdxs(dep) IN
    IF ~prop \/ lazy
    THEN LET c == Choice(r, pairs) IN [idx |-> c.value, rng |-> c.rng]
    ELSE IF Len(pairs) = 1
    THEN [idx |-> pairs[1], rng |-> r]
    ELSE LET c1 == Choice(r, pairs)
             c2 == Choice(c1.rng, pairs)
             rem1 == SamplerRemainingDuration(samplers[c1.value])
             rem2 == SamplerRemainingDuration(samplers[c2.value])
             u == RngStep(c2.rng)
         IN  IF rem1 + rem2 = 0
             THEN [idx |-> c1.value, rng |-> u]
             ELSE IF u * (rem1 + rem2) > rem1 * RngMod
                  THEN [idx |-> c2.value, rng |-> u]
                  ELSE [idx |-> c1.value, rng |-> u]

\* _select_bucket_with_idx: the chosen index and the generator afterwards.
SelectBucketWithIdx(dep, samplers, r, prop, lazy) ==
    LET pairs == NondepletedSamplersWithIdxs(dep) IN
    IF ~prop \/ lazy
    THEN LET c == Choice(r, pairs) IN [idx |-> c.value, rng |-> c.rng]
    ELSE IF Len(pairs) = 1
    THEN [idx |-> pairs[1], rng |-> r]
    ELSE LET c1 == Choice(r, pairs)
             c2 == Choice(c1.rng, pairs)
             rem1 == SamplerRemainingDuration(samplers[c1.value])
             rem2 == SamplerRemainingDuration(samplers[c2.value])
             u == RngStep(c2.rng)
         IN  IF rem1 + rem2 = 0
             THEN \* ZeroDivisionError: the first candidate
                  [idx |-> c1.value, rng |-> c2.rng]
             ELSE \* random() > prob1, with random() = u / RngMod
                  IF u * (rem1 + rem2) > rem1 * RngMod
                  THEN [idx |-> c2.value, rng |-> u]
                  ELSE [idx |-> c1.value, rng |-> u]

\* Marks nothing.
MarkDepleted_Noop(dep, idx) == dep

\* Marks every bucket.
MarkDepleted_All(dep, idx) == [i \in DOMAIN dep |-> TRUE]

\* self.depleted[idx] = True
MarkDepleted(dep, idx) == [dep EXCEPT ![idx] = TRUE]

\* The while loop of _next_batch; passes lists the selections made.  A call
\* that has made more passes than twice the number of buckets is reported as
\* "hang": the loop of the source has no bound of its own.
RECURSIVE NextBatchLoop(_, _, _, _, _, _, _)
NextBatchLoop(dep, samplers, r, passes, prop, lazy, dropLast) ==
    IF IsDepleted(dep)
    THEN [result |-> "StopIteration", batch |-> <<>>, depleted |-> dep,
          samplers |-> samplers, rng |-> r, passes |-> passes]
    ELSE IF Len(passes) > 2 * Len(dep)
    THEN [result |-> "hang", batch |-> <<>>, depleted |-> dep,
          samplers |-> samplers, rng |-> r, passes |-> passes]
    ELSE LET sel == SelectBucketWithIdx(dep, samplers, r, prop, lazy)
             n == SamplerNext(samplers[sel.idx], dropLast)
             pass == [idx |-> sel.idx, stop |-> n.stop,
                      was_depleted |-> dep[sel.idx]]
         IN  IF n.stop
             THEN NextBatchLoop(MarkDepleted(dep, sel.idx),
                                [samplers EXCEPT ![sel.idx] = n.sampler],
                                sel.rng, Append(passes, pass),
                                prop, lazy, dropLast)
             ELSE [result |-> "batch", batch |-> n.batch, depleted |-> dep,
                   samplers |-> [samplers EXCEPT ![sel.idx] = n.sampler],
                   rng |-> sel.rng, passes |-> Append(passes, pass)]

RECURSIVE SumLen(_, _)
SumLen(samplers, dropLast) ==
    IF samplers = <<>> THEN 0
    ELSE SamplerLen(Head(samplers), dropLast) + SumLen(Tail(samplers), dropLast)

\* sum(values) inside try / except TypeError: adding None to the running
\* total raises TypeError.
RECURSIVE PySum(_, _)
PySum(values, total) ==
    IF values = <<>> THEN Some(total)
    ELSE IF Head(values).kind = "None"
         THEN [kind |-> "TypeError", v |-> 0]
         ELSE PySum(Tail(values), total + Head(values).v)

\* The TypeError left to propagate.
OrNone_NoCatch(r) == r

\* except TypeError: return None
OrNone(r) == IF r.kind = "TypeError" THEN None ELSE r

\* remaining_duration
RemainingDuration(dep, samplers, lazy) ==
    LET pairs == NondepletedSamplersWithIdxs(dep)
    IN  OrNone(PySum([k \in DOMAIN pairs |->
                        Reported(SamplerRemainingDuration(samplers[pairs[k]]), lazy)],
                     0))

\* remaining_cuts
RemainingCuts(dep, samplers, lazy) ==
    LET pairs == NondepletedSamplersWithIdxs(dep)
    IN  OrNone(PySum([k \in DOMAIN pairs |->
                        Reported(SamplerRemainingCuts(samplers[pairs[k]]), lazy)],
                     0))

\* num_cuts summed over the buckets not depleted.
NumCuts_Nondepleted(dep, samplers, lazy) ==
    LET pairs == NondepletedSamplersWithIdxs(dep)
    IN  OrNone(PySum([k \in DOMAIN pairs |->
                        Reported(SamplerNumCuts(samplers[pairs[k]]), lazy)],
                     0))

\* num_cuts
NumCuts(dep, samplers, lazy) ==
    OrNone(PySum([k \in DOMAIN samplers |->
                    Reported(SamplerNumCuts(samplers[k]), lazy)],
                 0))

-----------------------------------------------------------------------------
(* The sampler specification.  Init is the state __init__ leaves. *)

BucketMethods == {"equal_len", "equal_duration", "percentile"}

\* An unknown method falling back to equal_len.
InitBuckets_DefaultEqualLen(cs, n, method) ==
    IF method = "equal_duration"
    THEN CreateBucketsEqualDuration(cs, n)
    ELSE [buckets |-> CreateBucketsEqualLen(cs, n), error |-> "none",
          stop_idx |-> -1]

\* The buckets __init__ builds, or the exception it raises.
InitBuckets(cs, n, method) ==
    IF method = "equal_len"
    THEN [buckets |-> CreateBucketsEqualLen(cs, n), error |-> "none",
          stop_idx |-> -1]
    ELSE IF method = "equal_duration"
    THEN CreateBucketsEqualDuration(cs, n)
    ELSE [buckets |-> <<>>, error |-> "ValueError", stop_idx |-> -1]

\* The sampler is built over collections given in ascending order of
\* duration (the builders sort their input in any case), and a lazy
\* collection comes with the default proportional_sampling = True.
Init ==
    /\ cuts \in {MakeCuts(d) : d \in {x \in SeqsUpTo(1..SamplerMaxDur, SamplerMaxCuts) :
                                       \A i \in 1..(Len(x) - 1) : x[i] <= x[i + 1]}}
    /\ num_buckets \in 1..SamplerMaxBuckets
    /\ bucket_method \in BucketMethods
    /\ drop_last \in BOOLEAN
    /\ proportional_sampling \in BOOLEAN
    /\ is_lazy \in BOOLEAN
    /\ is_lazy => proportional_sampling
    /\ seed \in 0..MaxSeed
    /\ epoch = 0
    /\ LET b == InitBuckets(cuts, num_buckets, bucket_method)
       IN  /\ buckets = b.buckets
           /\ error = b.error
           /\ stop_idx = b.stop_idx
           /\ bucket_samplers = [i \in DOMAIN b.buckets |-> NewSampler(b.buckets[i])]
           /\ depleted = IF b.error = "none"
                         THEN [i \in 1..num_buckets |-> FALSE] ELSE <<>>
    /\ bucket_rng = RngSeed(seed + epoch)
    /\ num_batches = <<>>
    /\ restart_from = "none"
    /\ trace = <<>>
    /\ filtered = FALSE
    /\ iter_key = seed + epoch

Constructed == error = "none"

\* Where in the epoch a restart found the sampler.
EpochStage ==
    IF IsDepleted(depleted) THEN "end"
    ELSE IF trace = <<>> THEN "fresh" ELSE "mid"

\* __iter__ without the reset of the depleted flags.
Iter_KeepDepleted ==
    /\ Constructed
    /\ bucket_rng' = RngSeed(seed + epoch)
    /\ bucket_samplers' = [i \in DOMAIN bucket_samplers |->
                              SamplerIter(bucket_samplers[i])]
    /\ restart_from' = EpochStage
    /\ trace' = <<>>
    /\ filtered' = FALSE
    /\ iter_key' = seed + epoch
    /\ UNCHANGED <<buildVars, configVars, epoch, num_batches, depleted>>

\* __iter__ without the reseeding of the generator.
Iter_NoReseed ==
    /\ Constructed
    /\ bucket_samplers' = [i \in DOMAIN bucket_samplers |->
                              SamplerIter(bucket_samplers[i])]
    /\ depleted' = [i \in 1..num_buckets |-> FALSE]
    /\ restart_from' = EpochStage
    /\ trace' = <<>>
    /\ filtered' = FALSE
    /\ iter_key' = seed + epoch
    /\ UNCHANGED <<buildVars, configVars, epoch, num_batches, bucket_rng>>

\* __iter__
Iter ==
    /\ Constructed
    /\ bucket_rng' = RngSeed(seed + epoch)
    /\ bucket_samplers' = [i \in DOMAIN bucket_samplers |->
                              SamplerIter(bucket_samplers[i])]
    /\ depleted' = [i \in 1..num_buckets |-> FALSE]
    /\ restart_from' = EpochStage
    /\ trace' = <<>>
    /\ filtered' = FALSE
    /\ iter_key' = seed + epoch
    /\ UNCHANGED <<buildVars, configVars, epoch, num_batches>>

\* __next__, that is _next_batch
NextBatch ==
    /\ Constructed
    /\ LET r == NextBatchLoop(depleted, bucket_samplers, bucket_rng, <<>>,
                              proportional_sampling, is_lazy, drop_last)
       IN  /\ depleted' = r.depleted
           /\ bucket_samplers' = r.samplers
           /\ bucket_rng' = r.rng
           /\ trace' = trace \o r.passes
    /\ UNCHANGED <<buildVars, configVars, epoch, num_batches, filtered,
                   iter_key, restart_from>>

\* set_epoch reseeding the generator at once.
SetEpoch_Reseeds(e) ==
    /\ Constructed
    /\ bucket_samplers' = [i \in DOMAIN bucket_samplers |->
                              SamplerSetEpoch(bucket_samplers[i], e)]
    /\ epoch' = e
    /\ bucket_rng' = RngSeed(seed + e)
    /\ restart_from' = "none"
    /\ UNCHANGED <<buildVars, configVars, depleted, num_batches, trace,
                   filtered, iter_key>>

\* Only the sampler's own epoch is set.
SetEpoch_OnlySelf(e) ==
    /\ Constructed
    /\ epoch' = e
    /\ restart_from' = "none"
    /\ UNCHANGED <<buildVars, configVars, bucket_samplers, bucket_rng, depleted,
                   num_batches, trace, filtered, iter_key>>

\* set_epoch starting the epoch over as well.
SetEpoch_ResetsDepleted(e) ==
    /\ Constructed
    /\ bucket_samplers' = [i \in DOMAIN bucket_samplers |->
                              SamplerSetEpoch(bucket_samplers[i], e)]
    /\ epoch' = e
    /\ depleted' = [i \in 1..num_buckets |-> FALSE]
    /\ restart_from' = "none"
    /\ UNCHANGED <<buildVars, configVars, bucket_rng, num_batches, trace,
                   filtered, iter_key>>

\* set_epoch(e)
SetEpoch(e) ==
    /\ Constructed
    /\ bucket_samplers' = [i \in DOMAIN bucket_samplers |->
                              SamplerSetEpoch(bucket_samplers[i], e)]
    /\ epoch' = e
    /\ restart_from' = "none"
    /\ UNCHANGED <<buildVars, configVars, bucket_rng, depleted, num_batches,
                   trace, filtered, iter_key>>

\* filter(predicate), the predicate being duration >= t
Filter(t) ==
    /\ Constructed
    /\ bucket_samplers' = [i \in DOMAIN bucket_samplers |->
                              SamplerFilter(bucket_samplers[i], t)]
    /\ filtered' = TRUE
    /\ restart_from' = "none"
    /\ UNCHANGED <<buildVars, configVars, epoch, bucket_rng, depleted,
                   num_batches, trace, iter_key>>

\* __len__
LenCall ==
    /\ Constructed
    /\ num_batches' = IF num_batches = <<>>
                      THEN <<SumLen(bucket_samplers, drop_last)>>
                      ELSE num_batches
    /\ restart_from' = "none"
    /\ UNCHANGED <<buildVars, configVars, epoch, bucket_samplers, bucket_rng,
                   depleted, trace, filtered, iter_key>>

Next ==
    \/ Iter
    \/ NextBatch
    \/ \E e \in 0..MaxEpoch : SetEpoch(e)
    \/ \E t \in 1..SamplerMaxDur : Filter(t)
    \/ LenCall

Spec == Init /\ [][Next]_vars

-----------------------------------------------------------------------------
(* Properties *)

Built == bucket_method \in {"equal_len", "equal_duration"}

\* The buckets hold every cut of the input, each once.
EachIdExactlyOnce ==
    LET f == Flatten(buckets)
    IN  /\ Len(f) = Len(cuts)
        /\ {f[i].id : i \in DOMAIN f} = {cuts[i].id : i \in DOMAIN cuts}

IsAscending(s) == \A i \in 1..(Len(s) - 1) : s[i].duration <= s[i + 1].duration

Abs(x) == IF x < 0 THEN -x ELSE x

\* The input is num_buckets * k cuts, k >= 1, of one duration.
UniformInput ==
    /\ Len(cuts) >= num_buckets
    /\ Len(cuts) % num_buckets = 0
    /\ \A i \in DOMAIN cuts : cuts[i].duration = cuts[1].duration

\* Batches bucket i has delivered since the last restart.
Delivered(i) ==
    Cardinality({k \in DOMAIN trace : trace[k].idx = i /\ ~trace[k].stop})

AllDelivered ==
    \A i \in DOMAIN bucket_samplers :
        Delivered(i) = SamplerLen(bucket_samplers[i], drop_last)

IsPrefix(s, t) == Len(s) <= Len(t) /\ SubSeq(t, 1, Len(s)) = s

\* The selections of one whole epoch, pulled until end-of-data.
RECURSIVE EpochTrace(_, _, _, _)
EpochTrace(dep, samplers, r, acc) ==
    LET n == NextBatchLoop(dep, samplers, r, <<>>,
                           proportional_sampling, is_lazy, drop_last)
    IN  IF n.result = "batch"
        THEN EpochTrace(n.depleted, n.samplers, n.rng, acc \o n.passes)
        ELSE acc \o n.passes

\* The selections of an epoch run by a sampler just constructed over the
\* same buckets with the same filter, its generator seeded with key.
FreshEpochTrace(key) ==
    EpochTrace([i \in 1..num_buckets |-> FALSE],
               [i \in DOMAIN bucket_samplers |->
                   [bucket_samplers[i] EXCEPT !.cursor = 0]],
               RngSeed(key), <<>>)

\* C1: under either policy the buckets hold every input cut id exactly
\* once: none is missing and none appears twice.
C1_PartitionCompleteness ==
    Built => (error = "none" /\ EachIdExactlyOnce)

\* C2: pulled to the end from a restart, with the filter unchanged, every
\* bucket delivers exactly the batches its sampler counts, none lost and
\* none twice, and the pull after the last batch signals end-of-data.
C2_Exhaustion ==
    /\ [](Constructed /\ ~filtered =>
            /\ \A i \in DOMAIN bucket_samplers :
                  Delivered(i) <= SamplerLen(bucket_samplers[i], drop_last)
            /\ IsDepleted(depleted) => AllDelivered)
    /\ [][(NextBatch /\ ~filtered /\ AllDelivered) =>
            (IsDepleted(depleted') /\
             \A k \in DOMAIN trace' : k > Len(trace) => trace'[k].stop)]_vars

C2_Witness ==
    /\ Constructed /\ ~filtered /\ IsDepleted(depleted)
    /\ num_buckets >= 2
    /\ \E i \in DOMAIN bucket_samplers : Delivered(i) >= 2
    /\ \E i, j \in DOMAIN bucket_samplers : i # j /\ Delivered(i) >= 1 /\ Delivered(j) >= 1

\* C3: a depleted flag that is true stays true until __iter__, and no
\* selection, proportional or uniform, returns a bucket whose flag is true.
C3_DepletionMonotonicity ==
    /\ [](\A k \in DOMAIN trace : ~trace[k].was_depleted)
    /\ [][(\E i \in DOMAIN depleted : depleted[i] /\ ~depleted'[i]) => Iter]_vars

C3_Witness ==
    /\ Constructed
    /\ proportional_sampling /\ ~is_lazy
    /\ \E k \in DOMAIN trace :
          /\ trace[k].stop
          /\ \E m \in DOMAIN trace : m > k /\ ~trace[m].stop
    /\ \E i \in DOMAIN depleted : ~depleted[i]

\* C4: from wherever in an epoch __iter__ is called, it leaves the generator
\* seeded with seed + epoch, every per-bucket cursor at the start and every
\* depleted flag false, and the pulls that follow deliver every batch of
\* every bucket.
C4_EpochRestart ==
    (restart_from # "none" /\ trace = <<>>) =>
        /\ bucket_rng = RngSeed(seed + epoch)
        /\ \A i \in DOMAIN bucket_samplers : bucket_samplers[i].cursor = 0
        /\ \A i \in DOMAIN depleted : ~depleted[i]
        /\ LET t == EpochTrace(depleted, bucket_samplers, bucket_rng, <<>>)
           IN  \A i \in DOMAIN bucket_samplers :
                  Cardinality({k \in DOMAIN t : t[k].idx = i /\ ~t[k].stop})
                      = SamplerLen(bucket_samplers[i], drop_last)

C4_Witness ==
    /\ restart_from = "mid" /\ trace = <<>>
    /\ bucket_rng = RngSeed(seed + epoch)
    /\ epoch = 1
    /\ num_buckets >= 2

\* C5: the selections of an epoch, and the depletions among them, are those
\* of a fresh sampler seeded with the same seed + epoch, whatever state the
\* sampler was restarted from; two epochs with one seed and one epoch number
\* therefore select the same buckets in the same order.
C5_EpochDeterminism ==
    (Constructed /\ ~filtered) => IsPrefix(trace, FreshEpochTrace(iter_key))

C5_Witness ==
    /\ Constructed /\ ~filtered
    /\ restart_from = "mid"
    /\ ~proportional_sampling
    /\ num_buckets >= 2
    /\ IsDepleted(depleted)
    /\ \E k \in DOMAIN trace : ~trace[k].stop /\ trace[k].idx # trace[1].idx

\* C6: in the equal-duration builder the cut stream runs out only while the
\* last bucket is being filled.
C6_StreamEndsInLastBucket ==
    (bucket_method = "equal_duration" /\ stop_idx # -1) =>
        stop_idx = num_buckets - 1

\* C7: for num_buckets * k cuts of one duration d, every bucket of the
\* equal-duration builder has a cumulative duration within d of
\* total_duration / num_buckets.
C7_EqualDurationBalance ==
    (bucket_method = "equal_duration" /\ UniformInput) =>
        /\ error = "none"
        /\ Len(buckets) = num_buckets
        /\ \A b \in DOMAIN buckets :
              Abs(SumDuration(buckets[b]) * num_buckets - SumDuration(cuts))
                  <= cuts[1].duration * num_buckets

C7_Witness ==
    /\ bucket_method = "equal_duration" /\ UniformInput
    /\ num_buckets = 3 /\ Len(cuts) = 6 /\ cuts[1].duration = 2
    /\ Len(buckets) = 3
    /\ SumDuration(buckets[2]) = 2

\* C8: a __len__ call returns the sum of the batch counts the per-bucket
\* samplers have at the call, never a total cached before a filter changed
\* those counts.
C8_FilterInvalidatesLen ==
    [][LenCall => num_batches' = <<SumLen(bucket_samplers, drop_last)>>]_vars

\* C9: with more buckets than cuts a builder still returns num_buckets
\* buckets without raising, the empty buckets are the later ones, an empty
\* bucket is marked depleted by the first pull on it, and every batch of the
\* other buckets is delivered.
C9_MoreBucketsThanCuts ==
    (Built /\ num_buckets > Len(cuts)) =>
        /\ error = "none"
        /\ Len(buckets) = num_buckets
        /\ \A i, j \in DOMAIN buckets :
              (i < j /\ buckets[i] = <<>>) => buckets[j] = <<>>
        /\ \A k \in DOMAIN trace :
              buckets[trace[k].idx] = <<>> => trace[k].stop
        /\ (IsDepleted(depleted) /\ ~filtered) => AllDelivered

\* C10: the buckets of create_buckets_equal_len are contiguous runs of the
\* first collection sorted by duration, and their sizes differ by at most 1.
C10_EqualLenBalance ==
    bucket_method = "equal_len" =>
        /\ Len(buckets) = num_buckets
        /\ IsAscending(Flatten(buckets))
        /\ EachIdExactlyOnce
        /\ \A i, j \in DOMAIN buckets : Len(buckets[i]) - Len(buckets[j]) <= 1

C10_Witness ==
    /\ bucket_method = "equal_len"
    /\ Len(cuts) = 5 /\ num_buckets = 3
    /\ cuts[1].duration > cuts[2].duration
    /\ Len(buckets[1]) = 2 /\ Len(buckets[3]) = 1

\* The buckets whose flag is false.
NonDepleted == {i \in DOMAIN depleted : ~depleted[i]}

\* The sum of f over the finite set S.
RECURSIVE SetSum(_, _)
SetSum(S, f) ==
    IF S = {} THEN 0
    ELSE LET x == CHOOSE y \in S : TRUE IN f[x] + SetSum(S \ {x}, f)

\* C11: remaining_duration and remaining_cuts are the sums of the
\* per-bucket values over exactly the buckets not depleted, 0 when all are
\* depleted, and None, not an error, when one of those buckets reports None.
C11_RemainingSums ==
    Constructed =>
        LET dur == RemainingDuration(depleted, bucket_samplers, is_lazy)
            cnt == RemainingCuts(depleted, bucket_samplers, is_lazy)
            anyNone == \E i \in NonDepleted :
                          Reported(SamplerRemainingDuration(bucket_samplers[i]),
                                   is_lazy) = None
        IN  /\ dur.kind \in {"int", "None"}
            /\ cnt.kind \in {"int", "None"}
            /\ anyNone => (dur = None /\ cnt = None)
            /\ ~anyNone =>
                  /\ dur = Some(SetSum(NonDepleted,
                              [i \in DOMAIN bucket_samplers |->
                                  SumDuration(SubSeq(bucket_samplers[i].cuts,
                                                     bucket_samplers[i].cursor + 1,
                                                     Len(bucket_samplers[i].cuts)))]))
                  /\ cnt = Some(SetSum(NonDepleted,
                              [i \in DOMAIN bucket_samplers |->
                                  Len(bucket_samplers[i].cuts)
                                      - bucket_samplers[i].cursor]))

C11_Witness ==
    /\ Constructed /\ is_lazy
    /\ NonDepleted # {}
    /\ \E i \in DOMAIN depleted : depleted[i]
    /\ RemainingDuration(depleted, bucket_samplers, is_lazy) = None
    /\ RemainingCuts(depleted, bucket_samplers, is_lazy) = None

\* C12: num_cuts is the sum of num_cuts over every per-bucket sampler,
\* depleted or not, so no pull, depletion or restart changes it; it is None
\* when a per-bucket sampler reports None.
C12_NumCutsStatic ==
    Constructed =>
        NumCuts(depleted, bucket_samplers, is_lazy)
            = IF is_lazy
              THEN None
              ELSE Some(SetSum(DOMAIN buckets,
                               [i \in DOMAIN buckets |-> Len(buckets[i])]))

C12_Witness ==
    /\ Constructed /\ ~is_lazy
    /\ \E i \in DOMAIN depleted : depleted[i] /\ buckets[i] # <<>>
    /\ NonDepleted # {}
    /\ NumCuts(depleted, bucket_samplers, is_lazy) = Some(Len(cuts))
    /\ Len(cuts) >= 3

\* C13: a bucket_method other than "equal_len" and "equal_duration" makes
\* the constructor raise ValueError before any bucket is built and before any
\* per-bucket sampler is created.
C13_UnknownBucketMethod ==
    bucket_method \notin {"equal_len", "equal_duration"} =>
        /\ error = "ValueError"
        /\ buckets = <<>>
        /\ bucket_samplers = <<>>
        /\ depleted = <<>>
        /\ ~Constructed

C13_Witness ==
    /\ bucket_method = "percentile"
    /\ error = "ValueError"
    /\ Len(cuts) >= 2

\* C14: set_epoch(e) leaves the sampler's epoch and the epoch of every
\* per-bucket sampler equal to e, so after any sequence of set_epoch calls
\* they all agree.
C14_EpochAgreement ==
    /\ [](Constructed => \A i \in DOMAIN bucket_samplers :
                            bucket_samplers[i].epoch = epoch)
    /\ [][\A e \in 0..MaxEpoch :
            (Constructed /\ epoch' = e /\ epoch # e) =>
                \A i \in DOMAIN bucket_samplers : bucket_samplers'[i].epoch = e]_vars

C14_Witness ==
    /\ Constructed /\ num_buckets >= 2
    /\ epoch = 1
    /\ \A i \in DOMAIN bucket_samplers : bucket_samplers[i].epoch = 1
    /\ trace # <<>>

\* C15: depleted[i] is true exactly when a pull made since the last restart
\* found the per-bucket sampler of bucket i at its end; such a pull sets no
\* other flag, and a bucket with no data left that no pull has found at its
\* end is still counted as not depleted.
C15_DepletionFlagAccuracy ==
    /\ [](Constructed =>
            \A i \in DOMAIN depleted :
                depleted[i] <=> \E k \in DOMAIN trace :
                                    trace[k].idx = i /\ trace[k].stop)
    /\ [][NextBatch =>
            \A i \in DOMAIN depleted :
                (depleted'[i] /\ ~depleted[i]) =>
                    \E k \in (Len(trace) + 1)..Len(trace') :
                        trace'[k].idx = i /\ trace'[k].stop]_vars

C15_Witness ==
    /\ Constructed
    /\ \E i, j \in DOMAIN depleted :
          /\ depleted[i]
          /\ ~depleted[j]
          /\ bucket_samplers[j].cuts # <<>>
          /\ bucket_samplers[j].cursor = Len(bucket_samplers[j].cuts)
          /\ \E k \in DOMAIN trace : trace[k].idx = j /\ ~trace[k].stop

\* The draws of a selection made in the current state by the tournament:
\* the two candidates with their remaining durations, the generator after
\* the second draw, and the uniform value a third draw gives, in sixteenths.
Draws ==
    LET pairs == NondepletedSamplersWithIdxs(depleted)
        c1 == Choice(bucket_rng, pairs)
        c2 == Choice(c1.rng, pairs)
    IN  [bucket1 |-> c1.value, bucket2 |-> c2.value,
         rem1 |-> SumDuration(SubSeq(bucket_samplers[c1.value].cuts,
                                     bucket_samplers[c1.value].cursor + 1,
                                     Len(bucket_samplers[c1.value].cuts))),
         rem2 |-> SumDuration(SubSeq(bucket_samplers[c2.value].cuts,
                                     bucket_samplers[c2.value].cursor + 1,
                                     Len(bucket_samplers[c2.value].cuts))),
         after2 |-> c2.rng, u |-> RngStep(c2.rng)]

\* The selection takes the tournament: proportional sampling over an eager
\* collection with at least two buckets not depleted.
Tournament ==
    /\ Constructed
    /\ proportional_sampling /\ ~is_lazy
    /\ Cardinality(NonDepleted) >= 2

\* The selection, and the whole pull, made in the current state.
Selected ==
    SelectBucketWithIdx(depleted, bucket_samplers, bucket_rng,
                        proportional_sampling, is_lazy)

Pulled ==
    NextBatchLoop(depleted, bucket_samplers, bucket_rng, <<>>,
                  proportional_sampling, is_lazy, drop_last)

\* C16: in the tournament both candidates are buckets not depleted; when
\* their remaining durations are not both zero the selection consumes the
\* uniform draw and returns bucket1 if that value is <= prob1 =
\* rem1 / (rem1 + rem2), bucket2 otherwise, and the pull goes to that bucket;
\* so a candidate with nothing remaining wins against one with something
\* remaining only as bucket1, with the uniform value 0.
C16_TournamentRule ==
    (Tournament /\ Draws.rem1 + Draws.rem2 > 0) =>
        LET d == Draws IN
        /\ d.bucket1 \in NonDepleted /\ d.bucket2 \in NonDepleted
        /\ Selected.idx = IF d.u * (d.rem1 + d.rem2) <= d.rem1 * RngMod
                          THEN d.bucket1 ELSE d.bucket2
        /\ Selected.rng = d.u
        /\ Pulled.passes[1].idx = Selected.idx
        /\ (d.rem1 = 0 /\ Selected.idx = d.bucket1) => d.u = 0
        /\ (d.rem2 = 0 /\ d.bucket1 # d.bucket2) => Selected.idx = d.bucket1

\* A candidate with nothing remaining wins against one with something
\* remaining, mid-epoch.
C16_Witness ==
    /\ Tournament
    /\ trace # <<>>
    /\ Draws.rem1 = 0 /\ Draws.rem2 > 0
    /\ Draws.u = 0
    /\ Selected.idx = Draws.bucket1

\* C17: when both candidates of the tournament have nothing remaining, the
\* same bucket drawn twice included, the selection returns the candidate
\* drawn first and leaves the generator as the second draw left it; the pull
\* goes to that bucket, and ends with a batch or with end-of-data after
\* marking it depleted.
C17_ZeroRemainingFallback ==
    (Tournament /\ Draws.rem1 + Draws.rem2 = 0) =>
        LET d == Draws
            p == Pulled
        IN  /\ Selected.idx = d.bucket1
            /\ Selected.rng = d.after2
            /\ p.passes[1].idx = d.bucket1
            /\ p.passes[1].stop => p.depleted[d.bucket1]
            /\ p.result \in {"batch", "StopIteration"}
            /\ p.result = "StopIteration" => IsDepleted(p.depleted)

C17_Witness ==
    /\ Tournament
    /\ trace # <<>>
    /\ Draws.rem1 + Draws.rem2 = 0
    /\ Draws.bucket1 # Draws.bucket2
    /\ Pulled.result = "batch"

\* The fill loop of bucket i (0-based) ended on its threshold, not on the
\* end of the cut stream.
ReachedThreshold(i) == error = "none" /\ stop_idx # i

\* The cuts the returned buckets 0..i hold together.
RECURSIVE LenUpTo(_)
LenUpTo(i) == IF i < 0 THEN 0 ELSE Len(buckets[i + 1]) + LenUpTo(i - 1)

\* C18: in a completed equal-duration build, an odd-indexed bucket i that
\* reached the threshold has lost the cut that took it there: the cut is not
\* in bucket i, which is strictly below bucket_duration without it and at or
\* above with it, and it is the first cut of bucket i + 1 when there is one;
\* an even-indexed bucket that reached the threshold is at or above
\* bucket_duration and below it without its last cut.
C18_OddBucketGiveBack ==
    (bucket_method = "equal_duration" /\ error = "none") =>
        LET sorted == SortByDuration(cuts)
            total == SumDuration(cuts)
        IN  \A i \in 0..(num_buckets - 1) :
              ReachedThreshold(i) =>
                LET b == buckets[i + 1]
                    cur == SumDuration(b)
                IN  IF i % 2 = 1
                    THEN /\ LenUpTo(i) < Len(sorted)
                         /\ LET given == sorted[LenUpTo(i) + 1]
                            IN  /\ \A k \in DOMAIN b : b[k].id # given.id
                                /\ cur * num_buckets < total
                                /\ (cur + given.duration) * num_buckets >= total
                                /\ i + 1 < num_buckets =>
                                      /\ buckets[i + 2] # <<>>
                                      /\ buckets[i + 2][1] = given
                    ELSE /\ cur * num_buckets >= total
                         /\ b # <<>> =>
                              (cur - b[Len(b)].duration) * num_buckets < total

C18_Witness ==
    /\ bucket_method = "equal_duration" /\ error = "none"
    /\ num_buckets >= 3
    /\ ReachedThreshold(0) /\ ReachedThreshold(1)
    /\ buckets[2] # <<>>
    /\ buckets[3] # <<>>
    /\ buckets[3][1] = SortByDuration(cuts)[LenUpTo(1) + 1]
    /\ \E k \in DOMAIN cuts : cuts[k].duration # cuts[1].duration

\* C19: a pull made in any reachable state ends, with a batch or with
\* end-of-data; every pass but a last one that returns a batch finds a bucket
\* not yet depleted at its end and marks it, so the passes of one pull are no
\* more than the buckets not depleted when it started.
C19_PullTerminates ==
    /\ [](Constructed =>
            LET p == Pulled IN
            /\ p.result \in {"batch", "StopIteration"}
            /\ Len(p.passes) <= Cardinality(NonDepleted)
            /\ \A k \in DOMAIN p.passes :
                  /\ p.passes[k].idx \in NonDepleted
                  /\ ~p.passes[k].was_depleted
                  /\ (k < Len(p.passes) \/ p.result = "StopIteration")
                        => (p.passes[k].stop /\ p.depleted[p.passes[k].idx])
                  /\ \A j \in DOMAIN p.passes :
                        (j # k /\ p.passes[j].stop /\ p.passes[k].stop)
                            => p.passes[j].idx # p.passes[k].idx)
    /\ [][NextBatch =>
            /\ Len(trace') - Len(trace) <= Cardinality(NonDepleted)
            /\ Cardinality({i \in DOMAIN depleted : depleted'[i] /\ ~depleted[i]})
                  >= Len(trace') - Len(trace) - 1]_vars

\* A pull of three passes is about to happen: two buckets are found at their
\* end before a third gives a batch.
C19_Witness ==
    /\ Constructed
    /\ Cardinality(NonDepleted) = 3
    /\ Len(Pulled.passes) = 3
    /\ Pulled.result = "batch"

\* C20: once every bucket is depleted, a pull signals end-of-data and changes
\* neither a flag, nor a per-bucket sampler, nor the generator, and selects
\* nothing; set_epoch, filter and __len__ leave the flags alone, so only
\* __iter__ ends the state.
C20_EndOfDataAbsorbing ==
    /\ []((Constructed /\ IsDepleted(depleted)) =>
            /\ Pulled.result = "StopIteration"
            /\ Pulled.passes = <<>>)
    /\ [][(Constructed /\ IsDepleted(depleted)) =>
            /\ NextBatch => UNCHANGED <<depleted, bucket_samplers, bucket_rng, trace>>
            /\ ~IsDepleted(depleted') => Iter]_vars

C20_Witness ==
    /\ Constructed
    /\ IsDepleted(depleted)
    /\ num_buckets >= 2
    /\ \E k \in DOMAIN trace : ~trace[k].stop
    /\ restart_from = "end"

\* C21: set_epoch changes the epoch counters only: the depleted flags, the
\* cursor, cuts and filter of every per-bucket sampler and the generator are
\* as before, so the selections left in the running epoch are the same with
\* and without the call; the generator is seeded with the new seed + epoch by
\* the next __iter__, not before.
C21_SetEpochFrame ==
    /\ [][\A e \in 0..MaxEpoch :
            SetEpoch(e) =>
                /\ UNCHANGED <<depleted, bucket_rng, trace, num_batches>>
                /\ DOMAIN bucket_samplers' = DOMAIN bucket_samplers
                /\ \A i \in DOMAIN bucket_samplers :
                      bucket_samplers'[i] =
                          [bucket_samplers[i] EXCEPT !.epoch = e]
                /\ EpochTrace(depleted', bucket_samplers', bucket_rng', <<>>)
                      = EpochTrace(depleted, bucket_samplers, bucket_rng, <<>>)]_vars
    /\ [][(Constructed /\ bucket_rng' # bucket_rng) => (Iter \/ NextBatch)]_vars
    /\ [][Iter => bucket_rng' = RngSeed(seed + epoch)]_vars

\* Mid-epoch, the epoch has been set to a value other than the one the
\* running epoch was seeded with.
C21_Witness ==
    /\ Constructed /\ num_buckets >= 2
    /\ trace # <<>>
    /\ \E i \in DOMAIN depleted : depleted[i]
    /\ ~IsDepleted(depleted)
    /\ seed + epoch # iter_key
    /\ \A i \in DOMAIN bucket_samplers : bucket_samplers[i].epoch = epoch
    /\ \E i \in DOMAIN bucket_samplers : bucket_samplers[i].cursor > 0

\* C22: the buckets of a completed equal-duration build, concatenated in
\* index order, are a prefix of the input sorted by ascending duration: no
\* cut is out of its place or in two buckets, so no cut of a bucket is longer
\* than a cut of a later bucket.
C22_OrderPreservation ==
    (bucket_method = "equal_duration" /\ error = "none") =>
        LET f == Flatten(buckets) IN
        /\ Len(buckets) = num_buckets
        /\ IsPrefix(f, SortByDuration(cuts))
        /\ \A k, l \in DOMAIN f : k # l => f[k].id # f[l].id
        /\ \A i, j \in DOMAIN buckets :
              i < j => \A k \in DOMAIN buckets[i], l \in DOMAIN buckets[j] :
                          buckets[i][k].duration <= buckets[j][l].duration

\* An input not in ascending order, three buckets all filled, the second one
\* having handed its last cut to the third.
C22_Witness ==
    /\ bucket_method = "equal_duration" /\ error = "none"
    /\ num_buckets >= 3
    /\ ~IsAscending(cuts)
    /\ \A i \in 1..3 : buckets[i] # <<>>
    /\ stop_idx \notin {0, 1}
    /\ buckets[1][1].duration < buckets[3][Len(buckets[3])].duration

====
